---------------------------- MODULE Spec2Model ----------------------------
(***************************************************************************)
(* Conversions between Rust's native integer types and Python `int`        *)
(* objects (src/objects/num3.rs).                                          *)
(*                                                                         *)
(* Three macro-generated adapters are modelled as they are written:        *)
(*   int_fits_c_long        PyLong_FromLong / PyLong_AsLong                *)
(*   int_fits_larger_int    promote to a larger type, narrow on extract    *)
(*   int_convert_u64_or_i64 PyLong_From[Unsigned]LongLong /                *)
(*                          PyLong_As[Unsigned]LongLong, with coercion     *)
(* together with err_if_invalid_value and the cfg-selected assignment of   *)
(* an adapter to each native type.                                         *)
(*                                                                         *)
(* Widths.  TLC's integers are 32 bits wide, so 2^64 cannot be written.    *)
(* The four widths 8 < 16 < 32 < 64 are kept distinct and in order but are *)
(* scaled to WidthBase, WidthBase+1, WidthBase+2, WidthBase+3 bits; every  *)
(* value of every type and every Python int from below i64::MIN to above   *)
(* u64::MAX is then enumerated.  All casts are two's complement at the     *)
(* scaled width.                                                           *)
(***************************************************************************)
EXTENDS Integers, Sequences, FiniteSets, TLC

VARIABLES platform, err, heap, made, last

vars == <<platform, err, heap, made, last>>

-----------------------------------------------------------------------------
(* Bounds of the model *)

\* Scaled width, in bits, of the 8-bit types.
WidthBase == 2

\* Most interpreter objects alive at once (the subject and coerced copies).
MaxObjects == 3

-----------------------------------------------------------------------------
(* Platforms and native types *)

\* target_pointer_width and target_os, as far as the cfg attributes read them.
Platforms == [pointer_width : {32, 64}, windows : BOOLEAN]

\* #[cfg(all(target_pointer_width="64", not(target_os="windows")))]
cfg_64_not_windows(P) == P.pointer_width = 64 /\ ~P.windows

\* #[cfg(any(target_pointer_width="32", target_os="windows"))]
cfg_32_or_windows(P) == P.pointer_width = 32 \/ P.windows

Types == {"i8", "u8", "i16", "u16", "i32", "u32", "i64", "u64", "isize", "usize"}

FixedTypes == Types \ {"isize", "usize"}

Signed(T) == T \in {"i8", "i16", "i32", "i64", "isize", "c_long"}

\* Width in bits of a native type; c_long is std::os::raw::c_long.
Width(P, T) ==
    CASE T \in {"i8", "u8"} -> 8
      [] T \in {"i16", "u16"} -> 16
      [] T \in {"i32", "u32"} -> 32
      [] T \in {"i64", "u64"} -> 64
      [] T \in {"isize", "usize"} -> P.pointer_width
      [] T = "c_long" -> IF cfg_64_not_windows(P) THEN 64 ELSE 32

\* The scaled number of bits that stands for a width.
ModelBits(w) ==
    CASE w = 8 -> WidthBase
      [] w = 16 -> WidthBase + 1
      [] w = 32 -> WidthBase + 2
      [] w = 64 -> WidthBase + 3

Bits(P, T) == ModelBits(Width(P, T))

MinVal(P, T) == IF Signed(T) THEN -(2 ^ (Bits(P, T) - 1)) ELSE 0

MaxVal(P, T) == IF Signed(T) THEN 2 ^ (Bits(P, T) - 1) - 1 ELSE 2 ^ Bits(P, T) - 1

InRange(v, P, T) == MinVal(P, T) <= v /\ v <= MaxVal(P, T)

ValuesOf(P, T) == MinVal(P, T) .. MaxVal(P, T)

\* `v as T`: Rust's integer cast, two's complement truncation or extension.
as_cast(v, P, T) ==
    LET m == 2 ^ Bits(P, T)
        r == v % m
    IN  IF Signed(T) /\ r > MaxVal(P, T) THEN r - m ELSE r

\* num_traits::cast::cast: Some(v) when the value is representable, else None.
cast(v, P, T) ==
    IF InRange(v, P, T) THEN [some |-> TRUE, v |-> v] ELSE [some |-> FALSE, v |-> 0]

-----------------------------------------------------------------------------
(* The embedded runtime: objects, the pending-error slot, the call log *)

\* Python ints the runtime may hold: from below i64::MIN to above u64::MAX.
IntVals == (-(2 ^ (ModelBits(64) - 1)) - 2) .. (2 ^ ModelBits(64) + 1)

\* Values of the float objects (numeric, but not integer objects).
FloatVals == {-1, 1, 2 ^ ModelBits(64) - 1}

\* A null pointer.
NULL == 0

IntObject(v) == [kind |-> "int", val |-> v, rc |-> 1]

\* One entry of the log of an operation: the call, whose step it is ("runtime":
\* a C-API primitive, "module": this crate's own code), the handle passed,
\* what it returned, and the pending-error slot before and after.
Entry(call, by, arg, ret, before, after) ==
    [call |-> call, by |-> by, arg |-> arg, ret |-> ret, before |-> before,
     after |-> after]

\* The state st = [err, heap, log] after a step that leaves the slot at e.
Step(st, call, by, arg, ret, e) ==
    [st EXCEPT !.log = Append(@, Entry(call, by, arg, ret, st.err, e)), !.err = e]

\* ffi::PyLong_FromLong, PyLong_FromLongLong, PyLong_FromUnsignedLongLong:
\* a new reference to an int object holding exactly the argument.
PyLong_From(st, call, v) ==
    [ret |-> Len(st.heap) + 1,
     st |-> [Step(st, call, "runtime", NULL, Len(st.heap) + 1, st.err) EXCEPT
                !.heap = Append(@, IntObject(v))]]

\* ffi::PyLong_Check
PyLong_Check(st, h) ==
    [ret |-> st.heap[h].kind = "int",
     st |-> Step(st, "PyLong_Check", "runtime", h, st.heap[h].kind = "int", st.err)]

\* A signed accessor of the C API reading into the native type C: the value
\* when it fits; -1 with OverflowError pending when it does not; -1 with
\* TypeError pending when the object is not a number.  A float is converted
\* through its __int__ inside the runtime.
PyLong_AsSigned(P, st, call, C, h) ==
    LET o == st.heap[h]
    IN  IF o.kind = "none"
        THEN [ret |-> -1, st |-> Step(st, call, "runtime", h, -1, "TypeError")]
        ELSE IF InRange(o.val, P, C)
        THEN [ret |-> o.val, st |-> Step(st, call, "runtime", h, o.val, st.err)]
        ELSE [ret |-> -1, st |-> Step(st, call, "runtime", h, -1, "OverflowError")]

\* ffi::PyLong_AsLong
PyLong_AsLong(P, st, h) == PyLong_AsSigned(P, st, "PyLong_AsLong", "c_long", h)

\* ffi::PyLong_AsLongLong
PyLong_AsLongLong(P, st, h) == PyLong_AsSigned(P, st, "PyLong_AsLongLong", "i64", h)

\* ffi::PyLong_AsUnsignedLongLong: (unsigned long long)-1 with TypeError pending
\* for anything but an int object, with OverflowError pending for a negative
\* or too large int.
PyLong_AsUnsignedLongLong(P, st, h) ==
    LET o == st.heap[h]
        call == "PyLong_AsUnsignedLongLong"
        failed == MaxVal(P, "u64")
    IN  IF o.kind # "int"
        THEN [ret |-> failed, st |-> Step(st, call, "runtime", h, failed, "TypeError")]
        ELSE IF InRange(o.val, P, "u64")
        THEN [ret |-> o.val, st |-> Step(st, call, "runtime", h, o.val, st.err)]
        ELSE [ret |-> failed,
              st |-> Step(st, call, "runtime", h, failed, "OverflowError")]

\* ffi::PyNumber_Long: a new reference to an int object, or NULL with an error
\* pending.  An int is returned itself, with one more reference.
PyNumber_Long(st, h) ==
    LET o == st.heap[h]
        new == Len(st.heap) + 1
    IN  CASE o.kind = "int" ->
               [ret |-> h,
                st |-> [Step(st, "PyNumber_Long", "runtime", h, h, st.err) EXCEPT
                           !.heap[h].rc = @ + 1]]
          [] o.kind = "float" ->
               [ret |-> new,
                st |-> [Step(st, "PyNumber_Long", "runtime", h, new, st.err) EXCEPT
                           !.heap = Append(@, IntObject(o.val))]]
          [] OTHER ->
               [ret |-> NULL,
                st |-> Step(st, "PyNumber_Long", "runtime", h, NULL, "TypeError")]

\* PyErr::occurred: reads the slot.
PyErr_occurred(st) ==
    [ret |-> st.err # "none",
     st |-> Step(st, "PyErr::occurred", "module", NULL, st.err # "none", st.err)]

\* PyErr::fetch: takes the pending error out of the slot, which is then clear.
PyErr_fetch(st) ==
    [ret |-> st.err, st |-> Step(st, "PyErr::fetch", "module", NULL, st.err, "none")]

\* The mutant of OverflowError_into: raising the error in the runtime.
OverflowError_restored(st) ==
    [ret |-> "OverflowError",
     st |-> Step(st, "exc::OverflowError.into", "module", NULL, "OverflowError",
                 "OverflowError")]

\* exc::OverflowError.into(): builds the error value; the slot is not touched.
OverflowError_into(st) ==
    [ret |-> "OverflowError",
     st |-> Step(st, "exc::OverflowError.into", "module", NULL, "OverflowError",
                 st.err)]

\* PyResult: Ok(v), or Err(e) where e was fetched from the slot or built here.
Ok(v, st) == [ok |-> TRUE, val |-> v, error |-> "none", fetched |-> FALSE, st |-> st]

Failure(e, fetched, st) ==
    [ok |-> FALSE, val |-> 0, error |-> e, fetched |-> fetched, st |-> st]

-----------------------------------------------------------------------------
(* The assignment of an adapter to each native type *)

Direct == [kind |-> "int_fits_c_long", larger |-> "-"]

Larger(L) == [kind |-> "int_fits_larger_int", larger |-> L]

Dedicated == [kind |-> "int_convert_u64_or_i64", larger |-> "-"]

\* A mutant of AdapterOf: u32 given to int_fits_c_long whatever c_long is.
AdapterOf_u32_direct(P, T) ==
    CASE T \in {"i8", "u8", "i16", "u16", "i32", "u32"} -> Direct
      [] T = "i64" /\ cfg_64_not_windows(P) -> Direct
      [] T = "i64" /\ cfg_32_or_windows(P) -> Dedicated
      [] T = "isize" /\ cfg_64_not_windows(P) -> Direct
      [] T = "isize" /\ cfg_32_or_windows(P) -> Larger("i64")
      [] T = "usize" -> Larger("u64")
      [] T = "u64" -> Dedicated

\* A mutant of AdapterOf: i64 given to int_fits_c_long whatever c_long is.
AdapterOf_i64_direct(P, T) ==
    CASE T \in {"i8", "u8", "i16", "u16", "i32", "i64"} -> Direct
      [] T = "u32" /\ cfg_64_not_windows(P) -> Direct
      [] T = "u32" /\ cfg_32_or_windows(P) -> Larger("u64")
      [] T = "isize" /\ cfg_64_not_windows(P) -> Direct
      [] T = "isize" /\ cfg_32_or_windows(P) -> Larger("i64")
      [] T = "usize" -> Larger("u64")
      [] T = "u64" -> Dedicated

\* The macro invocations, each under its cfg attribute.
AdapterOf(P, T) ==
    CASE T \in {"i8", "u8", "i16", "u16", "i32"} -> Direct
      [] T = "u32" /\ cfg_64_not_windows(P) -> Direct
      [] T = "u32" /\ cfg_32_or_windows(P) -> Larger("u64")
      [] T = "i64" /\ cfg_64_not_windows(P) -> Direct
      [] T = "i64" /\ cfg_32_or_windows(P) -> Dedicated
      [] T = "isize" /\ cfg_64_not_windows(P) -> Direct
      [] T = "isize" /\ cfg_32_or_windows(P) -> Larger("i64")
      [] T = "usize" -> Larger("u64")
      [] T = "u64" -> Dedicated

-----------------------------------------------------------------------------
(* int_fits_c_long *)

\* to_object / into_object: PyLong_FromLong(*self as c_long)
int_fits_c_long_to_object(P, T, v, st) ==
    PyLong_From(st, "PyLong_FromLong", as_cast(v, P, "c_long"))

\* A mutant of int_fits_c_long_extract: -1 is an error without asking
\* PyErr::occurred.
int_fits_c_long_extract_no_occurred(P, T, st, h) ==
    LET a == PyLong_AsLong(P, st, h)
    IN  IF a.ret = -1
        THEN LET f == PyErr_fetch(a.st) IN Failure(f.ret, TRUE, f.st)
        ELSE LET c == cast(a.ret, P, T)
             IN  IF c.some
                 THEN Ok(c.v, a.st)
                 ELSE LET e == OverflowError_into(a.st) IN Failure(e.ret, FALSE, e.st)

\* A mutant of int_fits_c_long_extract: PyErr::occurred is asked whatever the
\* value read.
int_fits_c_long_extract_any_pending(P, T, st, h) ==
    LET a == PyLong_AsLong(P, st, h)
        occ == PyErr_occurred(a.st)
    IN  IF occ.ret
        THEN LET f == PyErr_fetch(occ.st) IN Failure(f.ret, TRUE, f.st)
        ELSE LET c == cast(a.ret, P, T)
             IN  IF c.some
                 THEN Ok(c.v, occ.st)
                 ELSE LET e == OverflowError_into(occ.st) IN Failure(e.ret, FALSE, e.st)

\* pyobject_extract!: PyLong_AsLong, the -1 check, the checked cast
int_fits_c_long_extract(P, T, st, h) ==
    LET a == PyLong_AsLong(P, st, h)
        occ == PyErr_occurred(a.st)
        \* `&&` evaluates PyErr::occurred only when val == -1
        s1 == IF a.ret = -1 THEN occ.st ELSE a.st
    IN  IF a.ret = -1 /\ occ.ret
        THEN LET f == PyErr_fetch(occ.st) IN Failure(f.ret, TRUE, f.st)
        ELSE LET c == cast(a.ret, P, T)
             IN  IF c.some
                 THEN Ok(c.v, s1)
                 ELSE LET e == OverflowError_into(s1) IN Failure(e.ret, FALSE, e.st)

-----------------------------------------------------------------------------
(* err_if_invalid_value and int_convert_u64_or_i64 *)

\* A mutant of err_if_invalid_value: the invalid value is an error without
\* asking PyErr::occurred.
err_if_invalid_value_unchecked(st, invalid_value, actual_value) ==
    IF actual_value = invalid_value
    THEN LET f == PyErr_fetch(st) IN Failure(f.ret, TRUE, f.st)
    ELSE Ok(actual_value, st)

err_if_invalid_value(st, invalid_value, actual_value) ==
    LET occ == PyErr_occurred(st)
    IN  IF actual_value = invalid_value /\ occ.ret
        THEN LET f == PyErr_fetch(occ.st) IN Failure(f.ret, TRUE, f.st)
        ELSE Ok(actual_value, IF actual_value = invalid_value THEN occ.st ELSE st)

\* $pylong_from_ll_or_ull
pylong_from_ll_or_ull(T) ==
    IF T = "i64" THEN "PyLong_FromLongLong" ELSE "PyLong_FromUnsignedLongLong"

\* $pylong_as_ull_or_ull
pylong_as_ull_or_ull(P, T, st, h) ==
    IF T = "i64" THEN PyLong_AsLongLong(P, st, h) ELSE PyLong_AsUnsignedLongLong(P, st, h)

\* `!0` at the type of the accessor's result: all bits set.
AllBits(P, T) == as_cast(-1, P, T)

\* to_object / into_object: $pylong_from_ll_or_ull(*self)
int_convert_u64_or_i64_to_object(P, T, v, st) ==
    PyLong_From(st, pylong_from_ll_or_ull(T), v)

\* A mutant of int_convert_u64_or_i64_extract: no PyLong_Check, the accessor is
\* called on the handle first and coercion is tried when it fails.
int_convert_u64_or_i64_extract_no_check(P, T, st, ptr) ==
    LET a == pylong_as_ull_or_ull(P, T, st, ptr)
        r == err_if_invalid_value(a.st, AllBits(P, T), a.ret)
    IN  IF r.ok
        THEN r
        ELSE LET num == PyNumber_Long(r.st, ptr)
             IN  IF num.ret = NULL
                 THEN LET f == PyErr_fetch(num.st) IN Failure(f.ret, TRUE, f.st)
                 ELSE LET b == pylong_as_ull_or_ull(P, T, num.st, num.ret)
                      IN  err_if_invalid_value(b.st, AllBits(P, T), b.ret)

\* FromPyObject::extract
int_convert_u64_or_i64_extract(P, T, st, ptr) ==
    LET chk == PyLong_Check(st, ptr)
    IN  IF chk.ret
        THEN LET a == pylong_as_ull_or_ull(P, T, chk.st, ptr)
             IN  err_if_invalid_value(a.st, AllBits(P, T), a.ret)
        ELSE LET num == PyNumber_Long(chk.st, ptr)
             IN  IF num.ret = NULL
                 THEN LET f == PyErr_fetch(num.st) IN Failure(f.ret, TRUE, f.st)
                 ELSE LET a == pylong_as_ull_or_ull(P, T, num.st, num.ret)
                      IN  err_if_invalid_value(a.st, AllBits(P, T), a.ret)

-----------------------------------------------------------------------------
(* int_fits_larger_int, and the dispatch on the static type *)

RECURSIVE to_object(_, _, _, _)
RECURSIVE extract(_, _, _, _)

\* to_object / into_object: (*self as $larger_type).into_object(py)
int_fits_larger_int_to_object(P, T, L, v, st) ==
    to_object(P, L, as_cast(v, P, L), st)

\* A mutant of int_fits_larger_int_extract: `as` in place of the checked cast.
int_fits_larger_int_extract_as_cast(P, T, L, st, h) ==
    LET r == extract(P, L, st, h)
    IN  IF ~r.ok THEN r ELSE Ok(as_cast(r.val, P, T), r.st)

\* pyobject_extract!: extract the larger type, then the checked cast
int_fits_larger_int_extract(P, T, L, st, h) ==
    LET r == extract(P, L, st, h)
    IN  IF ~r.ok
        THEN r
        ELSE LET c == cast(r.val, P, T)
             IN  IF c.some
                 THEN Ok(c.v, r.st)
                 ELSE LET e == OverflowError_into(r.st) IN Failure(e.ret, FALSE, e.st)

\* ToPyObject::to_object for the native type T: [ret: the handle, st].
to_object(P, T, v, st) ==
    LET a == AdapterOf(P, T)
    IN  CASE a.kind = "int_fits_c_long" -> int_fits_c_long_to_object(P, T, v, st)
          [] a.kind = "int_fits_larger_int" ->
               int_fits_larger_int_to_object(P, T, a.larger, v, st)
          [] a.kind = "int_convert_u64_or_i64" ->
               int_convert_u64_or_i64_to_object(P, T, v, st)

\* FromPyObject::extract for the native type T.
extract(P, T, st, h) ==
    LET a == AdapterOf(P, T)
    IN  CASE a.kind = "int_fits_c_long" -> int_fits_c_long_extract(P, T, st, h)
          [] a.kind = "int_fits_larger_int" ->
               int_fits_larger_int_extract(P, T, a.larger, st, h)
          [] a.kind = "int_convert_u64_or_i64" ->
               int_convert_u64_or_i64_extract(P, T, st, h)

-----------------------------------------------------------------------------
(* The state machine *)

\* The runtime state an operation starts from, with an empty log.
Before == [err |-> err, heap |-> heap, log |-> <<>>]

NoOp ==
    [op |-> "none", T |-> "-", ok |-> FALSE, val |-> 0, error |-> "none",
     fetched |-> FALSE, preErr |-> "none", postErr |-> "none", preHeap |-> <<>>,
     log |-> <<>>]

NotMade == [by |-> "none", T |-> "-", v |-> 0]

\* No object yet, nothing pending.
Init ==
    /\ platform \in Platforms
    /\ err = "none"
    /\ heap = <<>>
    /\ made = NotMade
    /\ last = NoOp

\* v.to_object(py) for a value v of a native type T; the caller owns the
\* handle.
ToObject ==
    /\ heap = <<>>
    /\ \E T \in Types : \E v \in ValuesOf(platform, T) :
         \E r \in {to_object(platform, T, v, Before)} :
             /\ heap' = r.st.heap
             /\ err' = r.st.err
             /\ made' = [by |-> "to_object", T |-> T, v |-> v]
             /\ last' = [NoOp EXCEPT !.op = "to_object", !.T = T, !.ok = TRUE,
                            !.val = r.ret, !.preErr = err, !.postErr = r.st.err,
                            !.preHeap = heap, !.log = r.st.log]
    /\ UNCHANGED platform

\* The objects Python code may hand over: an int of any size, a float, None.
RuntimeObjects ==
    [kind : {"int"}, val : IntVals, rc : {1}]
        \cup [kind : {"float"}, val : FloatVals, rc : {1}]
        \cup [kind : {"none"}, val : {0}, rc : {1}]

\* Python code hands over an object.
RuntimeObject ==
    /\ heap = <<>>
    /\ \E o \in RuntimeObjects :
         /\ heap' = <<o>>
         /\ made' = [by |-> "runtime", T |-> "-", v |-> o.val]
    /\ last' = NoOp
    /\ UNCHANGED <<platform, err>>

\* obj.extract::<T>() on the borrowed handle of the object.
Extract ==
    /\ heap # <<>>
    /\ \E T \in Types :
         \E r \in {extract(platform, T, Before, 1)} :
             /\ Len(r.st.heap) <= MaxObjects
             /\ heap' = r.st.heap
             /\ err' = r.st.err
             /\ last' = [op |-> "extract", T |-> T, ok |-> r.ok, val |-> r.val,
                         error |-> r.error, fetched |-> r.fetched, preErr |-> err,
                         postErr |-> r.st.err, preHeap |-> heap, log |-> r.st.log]
    /\ UNCHANGED <<platform, made>>

\* An unrelated call into the runtime fails and leaves its error pending.
RuntimeSetsError ==
    /\ err = "none"
    /\ err' = "StaleError"
    /\ UNCHANGED <<platform, heap, made, last>>

\* The caller takes the pending error (PyErr_Clear and the like).
CallerClearsError ==
    /\ err # "none"
    /\ err' = "none"
    /\ UNCHANGED <<platform, heap, made, last>>

Next ==
    \/ ToObject
    \/ RuntimeObject
    \/ Extract
    \/ RuntimeSetsError
    \/ CallerClearsError

Spec == Init /\ [][Next]_vars

-----------------------------------------------------------------------------
(* Vocabulary of the properties *)

Extracted == last.op = "extract"

Converted == last.op = "to_object"

\* The object the handle passed to extract refers to.
Subject == last.preHeap[1]

IntSubject == Extracted /\ Subject.kind = "int"

\* The extraction follows v.to_object(py) for a value of type T.
RoundTrip(T) == Extracted /\ made.by = "to_object" /\ made.T = T

\* Every value of T is a value of U on this platform.
Within(T, U) == ValuesOf(platform, T) \subseteq ValuesOf(platform, U)

SlotUntouched(log) == \A i \in 1..Len(log) : log[i].after = log[i].before

IsRuntimeCall(e) == e.by = "runtime"

RuntimeCalls == SelectSeq(last.log, IsRuntimeCall)

IsAccessor(e) ==
    e.call \in {"PyLong_AsLong", "PyLong_AsLongLong", "PyLong_AsUnsignedLongLong"}

\* The outcome of extracting the same object as T on platform Q with the
\* pending-error slot at e.
Outcome(Q, T, e) == extract(Q, T, [err |-> e, heap |-> last.preHeap, log |-> <<>>], 1)

SameOutcome(r) == r.ok = last.ok /\ (last.ok => r.val = last.val)

OtherSlot == IF last.preErr = "none" THEN "StaleError" ELSE "none"

\* The accessor returns its all-bits value for a value the target type holds.
SentinelCase ==
    \/ Signed(last.T) /\ Subject.val = -1
    \/ ~Signed(last.T) /\ Subject.val = MaxVal(platform, "u64")
         /\ InRange(Subject.val, platform, last.T)

-----------------------------------------------------------------------------
(* C1 *)

\* C1: round trip.  With no error pending, v.to_object(py) leaves the slot
\* clear, and extracting the object as the same type T succeeds with exactly
\* v, for every type, platform and value.
C1_RoundTrip ==
    /\ (Converted /\ last.preErr = "none") => SlotUntouched(last.log)
    /\ \A T \in Types :
         (RoundTrip(T) /\ last.T = T /\ last.preErr = "none")
            => (last.ok /\ last.val = made.v)

\* u64::MAX, whose bits are the accessor's error value, went round.
C1_Witness ==
    /\ RoundTrip("u64") /\ last.T = "u64" /\ last.preErr = "none"
    /\ made.v = MaxVal(platform, "u64")
    /\ last.ok /\ last.val = made.v

-----------------------------------------------------------------------------
(* C2 *)

\* C2: overflow detection.  Extracting an int object as T succeeds only with
\* the object's own value, which is then in T's range: a value outside the
\* range fails, it is never wrapped, truncated or clamped.
C2_OverflowDetected ==
    IntSubject =>
        /\ ~InRange(Subject.val, platform, last.T) => ~last.ok
        /\ last.ok => last.val = Subject.val

\* u32::MAX failed to extract as i32 through the widening adapter's platform.
C2_Witness ==
    /\ IntSubject /\ cfg_32_or_windows(platform)
    /\ Subject.val = MaxVal(platform, "u32") /\ last.T = "i32"
    /\ ~last.ok

-----------------------------------------------------------------------------
(* C3 *)

\* C3: sentinel disambiguation.  With no error pending, u64::MAX extracts as
\* u64 and -1 extracts as every signed type; and an error is fetched only
\* when the slot is set at that moment.
C3_Sentinel ==
    /\ (IntSubject /\ last.preErr = "none" /\ last.T = "u64"
          /\ Subject.val = MaxVal(platform, "u64"))
         => (last.ok /\ last.val = Subject.val)
    /\ (IntSubject /\ last.preErr = "none" /\ Signed(last.T) /\ Subject.val = -1)
         => (last.ok /\ last.val = -1)
    /\ Extracted =>
         \A i \in 1..Len(last.log) :
            last.log[i].call = "PyErr::fetch" => last.log[i].before # "none"

\* -1 was read by the dedicated signed adapter, PyErr::occurred was asked and
\* the value was accepted.
C3_Witness ==
    /\ IntSubject /\ last.preErr = "none" /\ last.T = "i64"
    /\ AdapterOf(platform, "i64") = Dedicated
    /\ Subject.val = -1
    /\ \E i \in 1..Len(last.log) : last.log[i].call = "PyErr::occurred"
    /\ last.ok /\ last.val = -1

-----------------------------------------------------------------------------
(* C4 *)

\* C4 as stated: v.to_object(py) for v of type T, extracted as a type U that
\* holds every value of T, succeeds with v.
C4_CrossWidth_AsStated ==
    \A T \in Types :
       (RoundTrip(T) /\ Within(T, last.T)) => (last.ok /\ last.val = made.v)

\* C4, amended: the same, provided no error is pending when the extraction
\* starts.
C4_CrossWidth ==
    \A T \in Types :
       (RoundTrip(T) /\ Within(T, last.T) /\ last.preErr = "none")
          => (last.ok /\ last.val = made.v)

\* u32::MAX was made through the widening adapter and extracted as u64.
C4_Witness ==
    /\ RoundTrip("u32") /\ last.T = "u64" /\ last.preErr = "none"
    /\ AdapterOf(platform, "u32") = Larger("u64")
    /\ made.v = MaxVal(platform, "u32")
    /\ last.ok /\ last.val = made.v

-----------------------------------------------------------------------------
(* C5 *)

\* The assignment table of the design.
AssignmentTable(P, T) ==
    IF P.pointer_width = 64 /\ ~P.windows
    THEN CASE T \in {"i8", "u8", "i16", "u16", "i32", "u32", "i64", "isize"} -> Direct
           [] T = "usize" -> Larger("u64")
           [] T = "u64" -> Dedicated
    ELSE CASE T \in {"i8", "u8", "i16", "u16", "i32"} -> Direct
           [] T = "u32" -> Larger("u64")
           [] T = "i64" -> Dedicated
           [] T = "isize" -> Larger("i64")
           [] T = "usize" -> Larger("u64")
           [] T = "u64" -> Dedicated

\* C5: platform assignment.  Every type has the adapter of the table; a type
\* with the direct adapter has all its values inside c_long; and the object
\* to_object builds holds exactly the native value.
C5_Assignment ==
    /\ \A T \in Types : AdapterOf(platform, T) = AssignmentTable(platform, T)
    /\ \A T \in Types :
         AdapterOf(platform, T) = Direct => Within(T, "c_long")
    /\ Converted =>
         /\ heap[last.val] = IntObject(made.v)
         /\ AdapterOf(platform, made.T) = Direct =>
              as_cast(made.v, platform, "c_long") = made.v

\* i64::MIN went through PyLong_FromLong where c_long has 64 bits.
C5_Witness ==
    /\ Converted /\ made.T = "i64" /\ made.v = MinVal(platform, "i64")
    /\ AdapterOf(platform, "i64") = Direct
    /\ heap[last.val].val = made.v

-----------------------------------------------------------------------------
(* C6 *)

\* C6: pending-error slot discipline.  No step of this crate's own code, in
\* to_object or in extract, takes the slot from clear to set; an overflow
\* failure of the checked cast returns with the slot as it was at the start;
\* and a failure reported by the runtime is the error taken out of the slot,
\* which is clear on return.
C6_SlotDiscipline ==
    /\ \A i \in 1..Len(last.log) :
         last.log[i].by = "module"
            => ~(last.log[i].before = "none" /\ last.log[i].after # "none")
    /\ (Extracted /\ ~last.ok /\ ~last.fetched)
         => (last.error = "OverflowError" /\ last.postErr = last.preErr)
    /\ (Extracted /\ ~last.ok /\ last.fetched)
         => /\ last.postErr = "none"
            /\ last.error # "none"
            /\ \E i \in 1..Len(last.log) :
                 /\ last.log[i].call = "PyErr::fetch"
                 /\ last.log[i].before = last.error

\* The checked cast failed on -1 read for u8, from a clear slot: an overflow
\* error built here, the slot still clear.
C6_Witness ==
    /\ IntSubject /\ last.preErr = "none" /\ ~last.ok
    /\ ~last.fetched /\ last.error = "OverflowError" /\ last.postErr = "none"
    /\ last.T = "u8" /\ Subject.val = -1

-----------------------------------------------------------------------------
(* C7 *)

\* The accessor the dedicated adapter of T is instantiated with.
AccessorOf(T) == IF T = "i64" THEN "PyLong_AsLongLong" ELSE "PyLong_AsUnsignedLongLong"

\* C7: order of steps in the dedicated 64-bit adapter's extract.  PyLong_Check
\* comes first.  For an int object the accessor is then called on the handle
\* itself and PyNumber_Long is not called.  Otherwise PyNumber_Long is called
\* next; when it returns NULL no accessor is called and the result is the
\* error fetched from the slot, else the accessor is called on the object
\* PyNumber_Long returned.  The accessor is called at most once.
C7_DedicatedOrder ==
    (Extracted /\ AdapterOf(platform, last.T) = Dedicated) =>
        LET rt == RuntimeCalls
            n == Len(rt)
        IN  /\ n >= 2
            /\ rt[1].call = "PyLong_Check" /\ rt[1].arg = 1
            /\ Len(SelectSeq(rt, IsAccessor)) <= 1
            /\ IF rt[1].ret
               THEN /\ n = 2
                    /\ rt[2].call = AccessorOf(last.T) /\ rt[2].arg = 1
               ELSE /\ rt[2].call = "PyNumber_Long" /\ rt[2].arg = 1
                    /\ IF rt[2].ret = NULL
                       THEN /\ n = 2
                            /\ ~last.ok /\ last.fetched
                            /\ last.error = rt[2].after
                       ELSE /\ n = 3
                            /\ rt[3].call = AccessorOf(last.T)
                            /\ rt[3].arg = rt[2].ret

\* A float was coerced and the accessor read the coerced object.
C7_Witness ==
    /\ Extracted /\ last.T = "u64" /\ Subject.kind = "float"
    /\ Len(RuntimeCalls) = 3
    /\ RuntimeCalls[2].call = "PyNumber_Long"
    /\ RuntimeCalls[3].call = "PyLong_AsUnsignedLongLong"
    /\ RuntimeCalls[3].arg = 2
    /\ last.ok

-----------------------------------------------------------------------------
(* C8 *)

\* C8: reference-count neutrality of extraction.  When extract has returned,
\* the live objects and their reference counts are those from before the
\* call.
C8_RefcountNeutral == Extracted => heap = last.preHeap

-----------------------------------------------------------------------------
(* C9 *)

\* C9 as stated: the outcome of extracting an int object as T with the slot
\* set at the start is the outcome from a clear slot, and a successful
\* extraction leaves the slot as it found it.
C9_StaleIndependent_AsStated ==
    IntSubject =>
        /\ last.preErr # "none" => SameOutcome(Outcome(platform, last.T, "none"))
        /\ last.ok => last.postErr = last.preErr

\* C9, amended: the same, except where the accessor returns its all-bits
\* value for a value T holds (-1 for a signed T, u64::MAX for u64 and for a
\* 64-bit usize).  There the extraction succeeds only from a clear slot; from
\* a set slot it fails with the stale error, fetched, and leaves the slot
\* clear.
C9_StaleIndependent ==
    IntSubject =>
        /\ ~SentinelCase => SameOutcome(Outcome(platform, last.T, OtherSlot))
        /\ SentinelCase =>
             IF last.preErr = "none"
             THEN last.ok /\ last.val = Subject.val
             ELSE /\ ~last.ok /\ last.fetched
                  /\ last.error = last.preErr /\ last.postErr = "none"
        /\ last.ok => last.postErr = last.preErr

\* With a stale error pending, 1 was extracted and the error left in place,
\* as from a clear slot.
C9_Witness ==
    /\ IntSubject /\ last.preErr = "StaleError" /\ Subject.val = 1
    /\ last.T = "i8"
    /\ last.ok /\ last.val = 1 /\ last.postErr = "StaleError"
    /\ Outcome(platform, last.T, "none").ok

-----------------------------------------------------------------------------
(* C10 *)

\* C10: platform equivalence.  For a fixed-width T, an int object and a clear
\* slot, extract has the same outcome on every platform; and to_object builds
\* an object of the same value on every platform.
C10_PlatformEquivalent ==
    /\ (IntSubject /\ last.T \in FixedTypes /\ last.preErr = "none")
         => \A Q \in Platforms : SameOutcome(Outcome(Q, last.T, "none"))
    /\ (Converted /\ made.T \in FixedTypes)
         => \A Q \in Platforms :
              LET r == to_object(Q, made.T, made.v, [err |-> last.preErr,
                                                      heap |-> <<>>, log |-> <<>>])
              IN  r.st.heap[r.ret].val = heap[last.val].val

\* u32::MAX extracted as u32 where u32 has the widening adapter, as it does
\* where it has the direct one.
C10_Witness ==
    /\ IntSubject /\ last.T = "u32" /\ last.preErr = "none"
    /\ Subject.val = MaxVal(platform, "u32")
    /\ AdapterOf(platform, "u32") = Larger("u64")
    /\ last.ok /\ last.val = Subject.val
    /\ \E Q \in Platforms :
         AdapterOf(Q, "u32") = Direct /\ Outcome(Q, "u32", "none").ok

=============================================================================
